---- MODULE Spec2Model ----
(***************************************************************************)
(* A model of azure_metrics_exporter: the exporter's scrape handler        *)
(* (Collector.Collect / Collector.collectResource), the Azure client       *)
(* (AzureClient.getAccessToken / getMetricValue / listFromResourceGroup)   *)
(* and the live-reloadable configuration (SafeConfig.ReloadConfig).        *)
(*                                                                         *)
(* Go strings are sequences of one-character strings.  Instants are whole  *)
(* minutes.  A panic of the Go runtime is the absorbing state "crashed".   *)
(***************************************************************************)
EXTENDS Integers, Sequences, FiniteSets, TLC

(***************************************************************************)
(* Strings                                                                 *)
(***************************************************************************)

LowerSeq ==
  << "a","b","c","d","e","f","g","h","i","j","k","l","m",
     "n","o","p","q","r","s","t","u","v","w","x","y","z" >>

UpperSeq ==
  << "A","B","C","D","E","F","G","H","I","J","K","L","M",
     "N","O","P","Q","R","S","T","U","V","W","X","Y","Z" >>

DigitSeq == << "0","1","2","3","4","5","6","7","8","9" >>

Range(s) == { s[i] : i \in DOMAIN s }

\* strings.ToLower on one character (ASCII letters; every other character
\* of the model's alphabets has no lower-case form and is left alone).
LowerOf(c) ==
  IF \E i \in DOMAIN UpperSeq : UpperSeq[i] = c
  THEN LowerSeq[CHOOSE i \in DOMAIN UpperSeq : UpperSeq[i] = c]
  ELSE c

\* strings.ToLower(s)
ToLower(s) == [ i \in DOMAIN s |-> LowerOf(s[i]) ]

\* strings.Replace(s, old, new, -1) for a one-character old.
RECURSIVE ReplaceAll(_, _, _)
ReplaceAll(s, old, new) ==
  IF s = << >> THEN << >>
  ELSE (IF Head(s) = old THEN new ELSE << Head(s) >>)
         \o ReplaceAll(Tail(s), old, new)

\* The characters the regular expression [^a-zA-Z0-9_:] does NOT match.
ValidMetricChars ==
  Range(LowerSeq) \cup Range(UpperSeq) \cup Range(DigitSeq) \cup { "_", ":" }

\* invalidMetricChars.ReplaceAllString(s, "_")
ScrubInvalidMetricChars(s) ==
  [ i \in DOMAIN s |-> IF s[i] \in ValidMetricChars THEN s[i] ELSE "_" ]

\* A mutant of MetricName: the invalid characters are scrubbed before '/' is
\* rewritten, so '/' becomes '_' and never '_per_'.
MetricNameScrubFirst(rawName, unit) ==
  LET n1 == ReplaceAll(rawName, " ", << "_" >>)
      n2 == ToLower(n1 \o << "_" >> \o unit)
      n3 == ScrubInvalidMetricChars(n2)
  IN  ReplaceAll(n3, "/", << "_", "p", "e", "r", "_" >>)

\* The metric name collectResource derives from value.Name.Value and
\* value.Unit, step by step as the code does it.
MetricName(rawName, unit) ==
  LET n1 == ReplaceAll(rawName, " ", << "_" >>)
      n2 == ToLower(n1 \o << "_" >> \o unit)
      n3 == ReplaceAll(n2, "/", << "_", "p", "e", "r", "_" >>)
  IN  ScrubInvalidMetricChars(n3)

\* strings.Split(s, "/"): the segments between the separators.
RECURSIVE SplitSlash(_)
SplitSlash(s) ==
  IF \A i \in DOMAIN s : s[i] # "/" THEN << s >>
  ELSE LET k == CHOOSE i \in DOMAIN s :
                  s[i] = "/" /\ \A j \in 1..(i-1) : s[j] # "/"
       IN  << SubSeq(s, 1, k-1) >> \o SplitSlash(SubSeq(s, k+1, Len(s)))

\* resource_parts[len(resource_parts)-1]
LeafName(resource) ==
  LET parts == SplitSlash(resource) IN parts[Len(parts)]

(***************************************************************************)
(* Regular expressions of the include / exclude lists                      *)
(***************************************************************************)

\* A pattern is a literal with an optional ^ and an optional $:
\* [start |-> TRUE, lit |-> "web-", end |-> FALSE] is the expression ^web-.
\* regexp.MatchString(rx, s): the expression matches somewhere in s.  Every
\* pattern of a loaded configuration compiles (Config.Validate), so the
\* call returns no error.
RegexpMatch(rx, s) ==
  \E i \in 1..(Len(s) + 1) :
     /\ i + Len(rx.lit) - 1 <= Len(s)
     /\ SubSeq(s, i, i + Len(rx.lit) - 1) = rx.lit
     /\ rx.start => i = 1
     /\ rx.end => i + Len(rx.lit) - 1 = Len(s)

\* A mutant of IncludeOK: an empty include list lets no resource through.
IncludeOKEmptyDrops(target, name) ==
  \E k \in DOMAIN target.ResourceInclude :
     RegexpMatch(target.ResourceInclude[k], name)

\* Collect's include stage: with a non-empty resource_include the leaf name
\* must match one of its patterns.
IncludeOK(target, name) ==
  Len(target.ResourceInclude) # 0 =>
     \E k \in DOMAIN target.ResourceInclude :
        RegexpMatch(target.ResourceInclude[k], name)

\* Collect's exclude stage: the leaf name matches a resource_exclude pattern.
Excluded(target, name) ==
  \E k \in DOMAIN target.ResourceExclude :
     RegexpMatch(target.ResourceExclude[k], name)

(***************************************************************************)
(* Metric values: the wire format, the decoded struct, collectResource     *)
(***************************************************************************)

Kinds == << "Total", "Average", "Minimum", "Maximum" >>

KindSet == Range(Kinds)

\* An optional JSON member: None when the body does not carry it (or carries
\* null), Some(x) when it carries x.
None == << >>

Some(x) == << x >>

\* json.Unmarshal into AzureMetricValueResponse.  A float64 field whose
\* member is absent keeps its zero value; an absent array is a nil slice
\* (length 0), an empty array an empty non-nil slice.
DecodePoint(pt) ==
  [ k \in KindSet |-> IF pt[k] = None THEN 0 ELSE pt[k][1] ]

DecodeSeries(ts) ==
  [ Data |-> IF ts.data = None THEN << >>
             ELSE [ i \in DOMAIN ts.data[1] |-> DecodePoint(ts.data[1][i]) ] ]

DecodeEntry(e) ==
  [ ID |-> e.id, Name |-> e.name, Unit |-> e.unit,
    Timeseries |-> IF e.timeseries = None THEN << >>
                   ELSE [ i \in DOMAIN e.timeseries[1] |->
                             DecodeSeries(e.timeseries[1][i]) ] ]

DecodeMetricValue(body) ==
  [ isNil |-> body.value = None,
    Value |-> IF body.value = None THEN << >>
              ELSE [ i \in DOMAIN body.value[1] |->
                        DecodeEntry(body.value[1][i]) ] ]

\* hasAggregation(aggregations, kind): the kind is one of the configured
\* aggregations; an empty configured list stands for all four kinds.
hasAggregation(aggregations, kind) ==
  \/ Len(aggregations) = 0
  \/ \E i \in DOMAIN aggregations : aggregations[i] = kind

Suffix(kind) ==
  CASE kind = "Total"   -> << "_", "t", "o", "t", "a", "l" >>
    [] kind = "Average" -> << "_", "a", "v", "e", "r", "a", "g", "e" >>
    [] kind = "Minimum" -> << "_", "m", "i", "n" >>
    [] kind = "Maximum" -> << "_", "m", "a", "x" >>

\* The samples one entry sends to the channel, in the order of the four
\* if-statements, each valued from the data point metricValue.
RECURSIVE EmitKinds(_, _, _, _, _)
EmitKinds(k, aggregations, metricName, metricValue, id) ==
  IF k > Len(Kinds) THEN << >>
  ELSE (IF hasAggregation(aggregations, Kinds[k])
        THEN << [ name |-> metricName \o Suffix(Kinds[k]),
                  kind |-> Kinds[k],
                  value |-> metricValue[Kinds[k]],
                  id |-> id ] >>
        ELSE << >>)
       \o EmitKinds(k + 1, aggregations, metricName, metricValue, id)

\* A mutant of EmitEntries: the samples are valued from the first data
\* point of the series.
RECURSIVE EmitEntriesFirstPoint(_, _, _)
EmitEntriesFirstPoint(i, value, aggregations) ==
  IF i > Len(value) THEN [ panic |-> FALSE, samples |-> << >> ]
  ELSE LET v == value[i] IN
       IF Len(v.Timeseries) = 0 \/ Len(v.Timeseries[1].Data) = 0
       THEN [ panic |-> TRUE, samples |-> << >> ]
       ELSE LET data == v.Timeseries[1].Data
                here == EmitKinds(1, aggregations,
                                  MetricName(v.Name, v.Unit),
                                  data[1], v.ID)
                rest == EmitEntriesFirstPoint(i + 1, value, aggregations)
            IN  [ panic |-> rest.panic, samples |-> here \o rest.samples ]

\* The loop over metricValueData.Value from entry i on.  Indexing
\* Timeseries[0] or Data[len-1] of an empty slice panics; what was sent to
\* the channel before stays sent.
RECURSIVE EmitEntries(_, _, _)
EmitEntries(i, value, aggregations) ==
  IF i > Len(value) THEN [ panic |-> FALSE, samples |-> << >> ]
  ELSE LET v == value[i] IN
       IF Len(v.Timeseries) = 0 \/ Len(v.Timeseries[1].Data) = 0
       THEN [ panic |-> TRUE, samples |-> << >> ]
       ELSE LET data == v.Timeseries[1].Data
                here == EmitKinds(1, aggregations,
                                  MetricName(v.Name, v.Unit),
                                  data[Len(data)], v.ID)
                rest == EmitEntries(i + 1, value, aggregations)
            IN  [ panic |-> rest.panic, samples |-> here \o rest.samples ]

\* collectResource after a successful getMetricValue: the two guards, then
\* the loop.  Value[0] of an empty non-nil slice and Timeseries[0] of an
\* empty slice panic.
CollectDecoded(data, aggregations) ==
  IF data.isNil THEN [ panic |-> FALSE, samples |-> << >> ]
  ELSE IF Len(data.Value) = 0 \/ Len(data.Value[1].Timeseries) = 0
  THEN [ panic |-> TRUE, samples |-> << >> ]
  ELSE IF Len(data.Value[1].Timeseries[1].Data) = 0
  THEN [ panic |-> FALSE, samples |-> << >> ]
  ELSE EmitEntries(1, data.Value, aggregations)

(***************************************************************************)
(* Resource listing                                                        *)
(***************************************************************************)

\* fmt.Sprintf("subscriptions/%s", sc.C.Credentials.SubscriptionID)
SubscriptionPath(subscriptionID) ==
  << "s","u","b","s","c","r","i","p","t","i","o","n","s","/" >>
     \o subscriptionID

\* A mutant of StripPrefix: the leading '/' is not counted.
StripPrefixNoSlash(id, subscription) ==
  SubSeq(id, Len(subscription) + 1, Len(id))

\* result.Id[subscriotionPrefixLen:] with
\* subscriotionPrefixLen = len(subscription) + 1.
StripPrefix(id, subscription) ==
  SubSeq(id, Len(subscription) + 2, Len(id))

\* The slice expression panics when the identifier is shorter than the
\* prefix.
StripPanics(id, subscription) == Len(subscription) + 1 > Len(id)

\* The loop over data.Value of listFromResourceGroup.
ListedResources(ids, subscription) ==
  [ i \in DOMAIN ids |-> StripPrefix(ids[i], subscription) ]

(***************************************************************************)
(* Configuration files and the environment's answers                       *)
(***************************************************************************)

\* The clock stops advancing at MaxNow; a listing response names at most
\* MaxListing resources.
MaxNow == 15

MaxListing == 3

\* The clock's steps and the lifetimes the identity endpoint grants, in
\* minutes.
Ticks == { 5 }

Lifetimes == { 15 }

\* -10 * time.Minute, in minutes.
RefreshSkew == 10

\* time.Time{}: the zero instant, long before any time.Now().
ZeroTime == -1000

\* accessToken: "" of NewAzureClient.  A bearer is identified by the response
\* that carried it: the instant of the grant and the expires_on beside it
\* (ZeroTime when that response carried none that parses).
NoToken == [ iss |-> ZeroTime, exp |-> ZeroTime ]

Str_web == << "w", "e", "b", "-" >>
Str_staging == << "-", "s", "t", "a", "g", "i", "n", "g" >>
Leaf_web_staging == Str_web \o Tail(Str_staging)
Leaf_web_prod == Str_web \o << "p", "r", "o", "d" >>
Leaf_db_prod == << "d", "b", "-", "p", "r", "o", "d" >>
Leaf_x == << "x" >>
Leaf_y == << "y" >>

\* resource_include: ["^web-"], resource_exclude: ["-staging$"]
Rx_web == [ start |-> TRUE, lit |-> Str_web, end |-> FALSE ]
Rx_staging == [ start |-> FALSE, lit |-> Str_staging, end |-> TRUE ]

Res(name, aggregations) ==
  [ Name |-> name, Metrics |-> << "m" >>, Aggregations |-> aggregations ]

Grp(name, include, exclude, aggregations) ==
  [ Name |-> name, ResourceTypes |-> << "t" >>,
    ResourceInclude |-> include, ResourceExclude |-> exclude,
    Metrics |-> << "m" >>, Aggregations |-> aggregations ]

Cred(subscriptionID, client) ==
  [ SubscriptionID |-> subscriptionID, ClientID |-> client,
    ClientSecret |-> client, TenantID |-> client ]

\* &config.Config{}: what sc.C points to before main loads the file.
EmptyConfig ==
  [ Credentials |-> Cred(<< >>, ""), Resources |-> << >>,
    ResourceGroups |-> << >> ]

Group_web == << "g", "w" >>
Group_all == << "g", "a" >>
Group_empty == << "g", "e" >>

\* Two explicit resources, a group with the include and exclude patterns,
\* a group without any.
ConfigMain ==
  [ Credentials |-> Cred(<< "s", "1" >>, "c1"),
    Resources |-> << Res(<< "/", "r", "1" >>, << >>),
                     Res(<< "/", "r", "2" >>, << "Average" >>) >>,
    ResourceGroups |-> << Grp(Group_web, << Rx_web >>, << Rx_staging >>,
                              << "Total", "Maximum" >>),
                          Grp(Group_all, << >>, << >>, << >>) >> ]

\* The file after an edit: another subscription, other targets.
ConfigEdited ==
  [ Credentials |-> Cred(<< "s", "2", "2" >>, "c2"),
    Resources |-> << Res(<< "/", "r", "3" >>, << "Total" >>) >>,
    ResourceGroups |-> << Grp(Group_all, << >>, << >>, << "Minimum" >>) >> ]

\* One explicit resource and one group, which holds no resource.
ConfigSmall ==
  [ Credentials |-> Cred(<< "s", "1" >>, "c1"),
    Resources |-> << Res(<< "/", "r", "1" >>, << "Average" >>) >>,
    ResourceGroups |-> << Grp(Group_empty, << >>, << >>, << >>) >> ]

\* The leaf names the resources of a group may have.
GroupLeaves(group) ==
  IF group = Group_web
  THEN { Leaf_web_staging, Leaf_web_prod, Leaf_db_prod }
  ELSE IF group = Group_all THEN { Leaf_x, Leaf_y }
  ELSE { }

\* The identifier Azure lists for a resource of a subscription:
\* /subscriptions/<id>/<type>/<leaf>.
ResourceId(subscriptionID, leaf) ==
  << "/" >> \o SubscriptionPath(subscriptionID) \o << "/", "v", "m", "/" >>
     \o leaf

\* Sequences of distinct elements of S, up to length n.
RECURSIVE DistinctSeqs(_, _)
DistinctSeqs(S, n) ==
  IF n = 0 THEN { << >> }
  ELSE LET shorter == DistinctSeqs(S, n - 1) IN
       shorter \cup UNION { { Append(q, x) : x \in S \ Range(q) } : q \in shorter }

\* The bodies the listing endpoint may answer a request with: the "id"
\* members of its "value" array.
ListBodies(group, subscriptionID) ==
  { [ i \in DOMAIN leaves |-> ResourceId(subscriptionID, leaves[i]) ] :
       leaves \in DistinctSeqs(GroupLeaves(group), MaxListing) }

\* A data point of a series: each aggregation kind is a member or is not.
Point(total, average, minimum, maximum) ==
  [ k \in KindSet |-> CASE k = "Total" -> total [] k = "Average" -> average
                        [] k = "Minimum" -> minimum [] k = "Maximum" -> maximum ]

FullPoint(n) == Point(Some(n), Some(n + 1), Some(n + 2), Some(n + 3))

Entry(id, name, unit, timeseries) ==
  [ id |-> id, name |-> name, unit |-> unit, timeseries |-> timeseries ]

Series(points) == [ data |-> Some(points) ]

Name_cpu == << "C", "P", "U", " ", "p" >>
Unit_percent == << "P", "c", "t" >>

\* An entry of one series; its "id" is filled in by the answering endpoint.
OneSeries(name, unit, points) ==
  Entry(<< >>, name, unit, Some(<< Series(points) >>))

GoodEntry == OneSeries(Name_cpu, Unit_percent, << FullPoint(1), FullPoint(5) >>)

\* Bodies of the metrics endpoint: no "value" member, an empty "value"
\* array, one entry of one series of two full data points.
MainBodies ==
  { [ value |-> None ],
    [ value |-> Some(<< >>) ],
    [ value |-> Some(<< GoodEntry >>) ] }

\* The shapes a body may lack its nesting in: no "value", an empty "value",
\* a first entry without "timeseries" or with an empty one, a first series
\* without "data" or with an empty one; and entries after a good first.
ShapeBodies ==
  { [ value |-> None ],
    [ value |-> Some(<< >>) ],
    [ value |-> Some(<< Entry(<< >>, Name_cpu, Unit_percent, None) >>) ],
    [ value |-> Some(<< Entry(<< >>, Name_cpu, Unit_percent, Some(<< >>)) >>) ],
    [ value |-> Some(<< Entry(<< >>, Name_cpu, Unit_percent,
                              Some(<< [ data |-> None ] >>)) >>) ],
    [ value |-> Some(<< OneSeries(Name_cpu, Unit_percent, << >>) >>) ],
    [ value |-> Some(<< GoodEntry,
                        OneSeries(Name_cpu, Unit_percent, << >>) >>) ],
    [ value |-> Some(<< GoodEntry,
                        OneSeries(Name_cpu, Unit_percent,
                                  << FullPoint(3), FullPoint(7) >>) >>) ] }

\* Raw metric names and units: upper case, a blank, a slash, a character
\* outside the metric-name class, and names already inside it, in lower and
\* in upper case.
RawNames ==
  { Name_cpu, << "n", "/", "s" >>, << "x", "%", "Y" >>, << "a", "_", "1", ":" >>,
    << "q", "9" >>, << "I", "O" >> }

RawUnits == { Unit_percent, << "B", "/", "S" >>, << "m", " ", "s" >>, << "b" >> }

NameBodies ==
  { [ value |-> Some(<< OneSeries(n, u, << FullPoint(1) >>) >>) ] :
       n \in RawNames, u \in RawUnits }

\* Data points with any of the four members present or absent.
PartialPoints ==
  { Point(t, a, mi, ma) :
       t \in { None, Some(4) }, a \in { None, Some(3) },
       mi \in { None, Some(2) }, ma \in { None, Some(5) } }

KindBodies ==
  { [ value |-> Some(<< OneSeries(Name_cpu, Unit_percent,
                                  << FullPoint(6), pt >>) >>) ] :
       pt \in PartialPoints }

\* Two entries of their own series each.
TwoEntryBodies ==
  { [ value |-> Some(<< OneSeries(Name_cpu, Unit_percent,
                                  << FullPoint(1), pt >>),
                        OneSeries(<< "q", "9" >>, << "b" >>,
                                  << pt, FullPoint(7) >>) >>) ] :
       pt \in { FullPoint(3), Point(None, Some(3), None, None) } }

\* An entry of two series, and an entry of one after it.
TwoSeriesBodies ==
  { [ value |-> Some(<< Entry(<< >>, Name_cpu, Unit_percent,
                              Some(<< Series(<< FullPoint(1), FullPoint(3) >>),
                                      Series(<< FullPoint(11), FullPoint(13) >>) >>)),
                        OneSeries(<< "q", "9" >>, << "b" >>,
                                  << FullPoint(5), FullPoint(7) >>) >>) ] }

WideBodies ==
  ShapeBodies \cup NameBodies \cup KindBodies \cup TwoEntryBodies
    \cup TwoSeriesBodies

\* The aggregations a resource may be configured with: any of the four
\* kinds in the order of the file, which may repeat one.
AggregationLists ==
  { SelectSeq(Kinds, LAMBDA k : k \in S) : S \in SUBSET KindSet }
    \cup { << "Maximum", "Total" >>, << "Average", "Average" >> }

\* Files of one explicit resource.
CollectConfigs ==
  { [ Credentials |-> Cred(<< "s", "1" >>, "c1"),
      Resources |-> << Res(<< "/", "r", "1" >>, aggregations) >>,
      ResourceGroups |-> << >> ] : aggregations \in AggregationLists }

(***************************************************************************)
(* The identity endpoint                                                   *)
(***************************************************************************)

\* What a POST to the token endpoint may come back with: a transport error,
\* a status other than 200, a body that is not JSON, or a JSON object whose
\* access_token and expires_on are strings or are not, and whose expires_on
\* is a number or is not.
IdentityKinds ==
  { "neterr", "status", "badjson", "noToken", "noExpiry", "badExpiry", "ok" }

IdentityAnswer(kind, t, life) ==
  [ kind |-> kind,
    access_token |->
      IF kind \in { "noExpiry", "badExpiry", "ok" }
      THEN Some([ iss |-> t, exp |-> IF kind = "ok" THEN t + life ELSE ZeroTime ])
      ELSE None,
    expires_on |->
      IF kind \in { "badExpiry", "ok" }
      THEN Some([ numeric |-> kind = "ok", v |-> t + life ])
      ELSE None ]

NoAnswer == IdentityAnswer("none", ZeroTime, 0)

(***************************************************************************)
(* State                                                                   *)
(***************************************************************************)

\* main and the goroutines that serve /metrics.
Scrapers == { "s1", "s2" }

Procs == { "main" } \cup Scrapers

VARIABLES
  C,                     \* sc.C: the configuration the SafeConfig points to
  accessToken,           \* ac.accessToken
  accessTokenExpiresOn,  \* ac.accessTokenExpiresOn
  now,                   \* the wall clock, in minutes
  crashed,               \* a goroutine panicked: the process is gone
  pc,                    \* where each of main and the handlers stands
  frame,                 \* Collect's locals, per handler
  call,                  \* the client call in progress or last made, per process
  ch,                    \* the samples sent to the channel in this scrape
  log,                   \* the client calls this scrape has returned from
  reads                  \* the configurations this scrape has read sc.C as

vars ==
  << C, accessToken, accessTokenExpiresOn, now, crashed, pc, frame, call, ch,
     log, reads >>

NoBody == [ value |-> None ]

NoRequest == [ bearer |-> NoToken, subscription |-> << >> ]

\* A client call as it starts: getAccessToken of main ("startup"),
\* getMetricValue ("metric") or listFromResourceGroup ("list").
NewCall(kind, target, aggregations) ==
  [ kind |-> kind, target |-> target, aggregations |-> aggregations,
    stage |-> IF kind = "startup" THEN "post" ELSE "check",
    chkNow |-> ZeroTime, chkExp |-> ZeroTime, chkTok |-> NoToken,
    granted |-> FALSE, answer |-> NoAnswer,
    passed |-> NoToken, overwritten |-> FALSE,
    request |-> NoRequest,
    response |-> "none", body |-> NoBody, ids |-> << >>,
    emitted |-> << >> ]

NoCall == [ NewCall("none", << >>, << >>) EXCEPT !.stage = "none" ]

IdleFrame ==
  [ phase |-> "idle", resources |-> << >>, ri |-> 0, groups |-> << >>,
    gi |-> 0, ids |-> << >>, listed |-> << >>, li |-> 0, decisions |-> << >> ]

Init ==
  /\ C = EmptyConfig
  /\ accessToken = NoToken
  /\ accessTokenExpiresOn = ZeroTime
  /\ now = 0
  /\ crashed = FALSE
  /\ pc = [ p \in Procs |-> IF p = "main" THEN "load" ELSE "idle" ]
  /\ frame = [ p \in Procs |-> IdleFrame ]
  /\ call = [ p \in Procs |-> NoCall ]
  /\ ch = [ p \in Procs |-> << >> ]
  /\ log = [ p \in Procs |-> << >> ]
  /\ reads = [ p \in Procs |-> { } ]

\* The process is alive: no goroutine panicked and main did not log.Fatalf.
Running == ~crashed /\ pc["main"] # "exit"

(***************************************************************************)
(* How a client call ends                                                  *)
(***************************************************************************)

\* An index out of range or a failed type assertion: the goroutine panics
\* and takes the process down.
Panic(p, c, samples) ==
  /\ crashed' = TRUE
  /\ call' = [ call EXCEPT ![p] = [ c EXCEPT !.stage = "panic" ] ]
  /\ ch' = [ ch EXCEPT ![p] = @ \o samples ]
  /\ UNCHANGED << pc, frame, log >>

\* The call returns to its caller.  main: log.Fatalf on an error, else it
\* serves.  collectResource: logs an error and returns, or has sent its
\* samples; Collect goes on with the next resource.  The group loop:
\* continue on an error, else the loop over the resources listed.
Return(p, c, outcome, samples) ==
  /\ crashed' = crashed
  /\ call' = [ call EXCEPT ![p] = [ c EXCEPT !.stage = outcome ] ]
  /\ ch' = [ ch EXCEPT ![p] = @ \o samples ]
  /\ log' = [ log EXCEPT ![p] =
                IF c.kind = "startup" THEN @
                ELSE Append(@, [ kind |-> c.kind, target |-> c.target ]) ]
  /\ CASE c.kind = "startup" ->
            /\ pc' = [ pc EXCEPT ![p] = IF outcome = "ok" THEN "serve" ELSE "exit" ]
            /\ frame' = frame
       [] c.kind = "metric" /\ frame[p].phase = "res" ->
            /\ pc' = [ pc EXCEPT ![p] = "resLoop" ]
            /\ frame' = [ frame EXCEPT ![p].ri = @ + 1 ]
       [] c.kind = "metric" /\ frame[p].phase = "grp" ->
            /\ pc' = [ pc EXCEPT ![p] = "filter" ]
            /\ frame' = [ frame EXCEPT ![p].li = @ + 1 ]
       [] c.kind = "list" /\ outcome = "ok" ->
            /\ pc' = [ pc EXCEPT ![p] = "filter" ]
            /\ frame' = [ frame EXCEPT ![p] =
                 [ @ EXCEPT !.ids = c.ids,
                            !.listed = ListedResources(c.ids,
                                SubscriptionPath(c.request.subscription)),
                            !.li = 1,
                            !.decisions = << >> ] ]
       [] c.kind = "list" /\ outcome # "ok" ->
            /\ pc' = [ pc EXCEPT ![p] = "grpLoop" ]
            /\ frame' = [ frame EXCEPT ![p].gi = @ + 1 ]

(***************************************************************************)
(* main                                                                    *)
(***************************************************************************)

\* sc.ReloadConfig(*configFile) of main: the file loads and validates, or
\* main logs the error and exits.  Then main calls getAccessToken.
MainLoad(files) ==
  /\ Running
  /\ pc["main"] = "load"
  /\ \E c \in files, valid \in BOOLEAN :
       IF valid
       THEN /\ C' = c
            /\ pc' = [ pc EXCEPT !["main"] = "post" ]
            /\ call' = [ call EXCEPT !["main"] = NewCall("startup", << >>, << >>) ]
       ELSE /\ pc' = [ pc EXCEPT !["main"] = "exit" ]
            /\ UNCHANGED << C, call >>
  /\ UNCHANGED << accessToken, accessTokenExpiresOn, now, crashed, frame, ch,
                  log, reads >>

\* SafeConfig.ReloadConfig while the server runs: the pointer is swapped
\* under the write lock.  A file that fails to load leaves sc.C alone.
ReloadConfig(files) ==
  /\ Running
  /\ pc["main"] = "serve"
  /\ \E c \in files \ { C } : C' = c
  /\ UNCHANGED << accessToken, accessTokenExpiresOn, now, crashed, pc, frame,
                  call, ch, log, reads >>

\* Time passes.
Tick ==
  /\ Running
  /\ now < MaxNow
  /\ \E d \in Ticks : now' = now + d
  /\ UNCHANGED << C, accessToken, accessTokenExpiresOn, crashed, pc, frame,
                  call, ch, log, reads >>

(***************************************************************************)
(* Collect                                                                 *)
(***************************************************************************)

\* handler: a fresh registry and Collector; Collect starts and evaluates the
\* range expression sc.C.Resources.
StartScrape(p) ==
  /\ Running
  /\ pc["main"] = "serve"
  /\ pc[p] \in { "idle", "done" }
  /\ pc' = [ pc EXCEPT ![p] = "resLoop" ]
  /\ frame' = [ frame EXCEPT ![p] =
       [ IdleFrame EXCEPT !.phase = "res", !.resources = C.Resources, !.ri = 1 ] ]
  /\ call' = [ call EXCEPT ![p] = NoCall ]
  /\ ch' = [ ch EXCEPT ![p] = << >> ]
  /\ log' = [ log EXCEPT ![p] = << >> ]
  /\ reads' = [ reads EXCEPT ![p] = { C } ]
  /\ UNCHANGED << C, accessToken, accessTokenExpiresOn, now, crashed >>

\* The loop over the explicit resources: collectResource on the next one,
\* or, past the last, the range expression sc.C.ResourceGroups.
ResLoop(p) ==
  /\ Running
  /\ pc[p] = "resLoop"
  /\ LET f == frame[p] IN
     IF f.ri <= Len(f.resources)
     THEN /\ call' = [ call EXCEPT ![p] =
                 NewCall("metric", f.resources[f.ri].Name,
                         f.resources[f.ri].Aggregations) ]
          /\ pc' = [ pc EXCEPT ![p] = "check" ]
          /\ UNCHANGED << frame, reads >>
     ELSE /\ frame' = [ frame EXCEPT ![p] =
                 [ f EXCEPT !.phase = "grp", !.groups = C.ResourceGroups,
                            !.gi = 1 ] ]
          /\ reads' = [ reads EXCEPT ![p] = @ \cup { C } ]
          /\ pc' = [ pc EXCEPT ![p] = "grpLoop" ]
          /\ UNCHANGED call
  /\ UNCHANGED << C, accessToken, accessTokenExpiresOn, now, crashed, ch, log >>

\* The loop over the resource groups: listFromResourceGroup on the next
\* one, or, past the last, Collect returns.
GrpLoop(p) ==
  /\ Running
  /\ pc[p] = "grpLoop"
  /\ LET f == frame[p] IN
     IF f.gi <= Len(f.groups)
     THEN /\ call' = [ call EXCEPT ![p] =
                 NewCall("list", f.groups[f.gi].Name, << >>) ]
          /\ pc' = [ pc EXCEPT ![p] = "check" ]
     ELSE /\ pc' = [ pc EXCEPT ![p] = "done" ]
          /\ UNCHANGED call
  /\ UNCHANGED << C, accessToken, accessTokenExpiresOn, now, crashed, frame,
                  ch, log, reads >>

\* The loop over the resources a group listed: the leaf name against the
\* include and the exclude patterns, then collectResource or continue.
Filter(p) ==
  /\ Running
  /\ pc[p] = "filter"
  /\ LET f == frame[p]
         target == f.groups[f.gi]
     IN
     IF f.li <= Len(f.listed)
     THEN LET resource == f.listed[f.li]
              resource_name == LeafName(resource)
              keep == IncludeOK(target, resource_name)
                        /\ ~Excluded(target, resource_name)
          IN  /\ frame' = [ frame EXCEPT ![p] =
                     [ f EXCEPT !.decisions =
                                   Append(@, [ resource |-> resource,
                                               collected |-> keep ]),
                                !.li = IF keep THEN @ ELSE @ + 1 ] ]
              /\ IF keep
                 THEN /\ call' = [ call EXCEPT ![p] =
                             NewCall("metric", resource, target.Aggregations) ]
                      /\ pc' = [ pc EXCEPT ![p] = "check" ]
                 ELSE UNCHANGED << call, pc >>
     ELSE /\ frame' = [ frame EXCEPT ![p] =
                 [ f EXCEPT !.gi = @ + 1, !.ids = << >>, !.listed = << >>,
                            !.li = 0, !.decisions = << >> ] ]
          /\ pc' = [ pc EXCEPT ![p] = "grpLoop" ]
          /\ UNCHANGED call
  /\ UNCHANGED << C, accessToken, accessTokenExpiresOn, now, crashed, ch, log,
                  reads >>

(***************************************************************************)
(* The Azure client                                                        *)
(***************************************************************************)

\* A mutant of NeedsRefresh: the boundary instant refreshes too.
NeedsRefreshAtBoundary(t, expiresOn) == t >= expiresOn - RefreshSkew

\* now.After(refreshAt) with refreshAt = accessTokenExpiresOn - 10 minutes.
NeedsRefresh(t, expiresOn) == t > expiresOn - RefreshSkew

\* getMetricValue / listFromResourceGroup, first lines: time.Now() against
\* the stored expiry.
TokenCheck(p) ==
  /\ Running
  /\ pc[p] = "check"
  /\ LET stale == NeedsRefresh(now, accessTokenExpiresOn) IN
     /\ call' = [ call EXCEPT ![p] =
            [ @ EXCEPT !.chkNow = now, !.chkExp = accessTokenExpiresOn,
                       !.chkTok = accessToken, !.passed = accessToken,
                       !.stage = IF stale THEN "post" ELSE "build" ] ]
     /\ pc' = [ pc EXCEPT ![p] = IF stale THEN "post" ELSE "build" ]
  /\ UNCHANGED << C, accessToken, accessTokenExpiresOn, now, crashed, frame,
                  ch, log, reads >>

\* getAccessToken up to json.Unmarshal: the form from sc.C.Credentials, the
\* POST, the status, the body.  An error returns; data["access_token"]
\* that is no string panics in the type assertion.
PostForm(p, kinds) ==
  /\ Running
  /\ pc[p] = "post"
  /\ reads' = [ reads EXCEPT ![p] = IF p \in Scrapers THEN @ \cup { C } ELSE @ ]
  /\ \E k \in kinds, life \in Lifetimes :
       LET c == [ call[p] EXCEPT !.granted = TRUE,
                                 !.answer = IdentityAnswer(k, now, life) ]
       IN  CASE k \in { "neterr", "status", "badjson" } ->
                  Return(p, c, "tokenError", << >>)
             [] k = "noToken" ->
                  Panic(p, c, << >>)
             [] OTHER ->
                  /\ call' = [ call EXCEPT ![p] = [ c EXCEPT !.stage = "setTok" ] ]
                  /\ pc' = [ pc EXCEPT ![p] = "setTok" ]
                  /\ UNCHANGED << crashed, frame, ch, log >>
  /\ UNCHANGED << C, accessToken, accessTokenExpiresOn, now >>

\* ac.accessToken = data["access_token"].(string).  A call of another
\* goroutine that has its token and has not yet built its request will
\* carry this one instead.
SetToken(p) ==
  /\ Running
  /\ pc[p] = "setTok"
  /\ accessToken' = call[p].answer.access_token[1]
  /\ call' = [ q \in Procs |->
       IF q = p THEN [ call[p] EXCEPT !.stage = "setExp", !.overwritten = FALSE ]
       ELSE IF pc[q] \in { "setExp", "build" }
            THEN [ call[q] EXCEPT !.overwritten = TRUE ]
            ELSE call[q] ]
  /\ pc' = [ pc EXCEPT ![p] = "setExp" ]
  /\ UNCHANGED << C, accessTokenExpiresOn, now, crashed, frame, ch, log, reads >>

\* strconv.ParseInt(data["expires_on"].(string), 10, 64) and the store of
\* ac.accessTokenExpiresOn: the type assertion panics, ParseInt returns
\* an error, or the expiry is stored and getAccessToken returns nil.
SetExpiry(p) ==
  /\ Running
  /\ pc[p] = "setExp"
  /\ LET c == call[p]
         a == c.answer
     IN  IF a.expires_on = None
         THEN /\ Panic(p, c, << >>)
              /\ UNCHANGED accessTokenExpiresOn
         ELSE IF ~a.expires_on[1].numeric
         THEN /\ Return(p, c, "tokenError", << >>)
              /\ UNCHANGED accessTokenExpiresOn
         ELSE /\ accessTokenExpiresOn' = a.expires_on[1].v
              /\ IF c.kind = "startup"
                 THEN Return(p, c, "ok", << >>)
                 ELSE /\ call' = [ call EXCEPT ![p] =
                             [ c EXCEPT !.stage = "build",
                                        !.passed = a.access_token[1] ] ]
                      /\ pc' = [ pc EXCEPT ![p] = "build" ]
                      /\ UNCHANGED << crashed, frame, ch, log >>
  /\ UNCHANGED << C, accessToken, now, reads >>

\* The request: the URL from sc.C.Credentials.SubscriptionID, the
\* Authorization header from ac.accessToken.
BuildRequest(p) ==
  /\ Running
  /\ pc[p] = "build"
  /\ call' = [ call EXCEPT ![p] =
       [ @ EXCEPT !.stage = "do",
                  !.request = [ bearer |-> accessToken,
                                subscription |-> C.Credentials.SubscriptionID ] ] ]
  /\ reads' = [ reads EXCEPT ![p] = @ \cup { C } ]
  /\ pc' = [ pc EXCEPT ![p] = "do" ]
  /\ UNCHANGED << C, accessToken, accessTokenExpiresOn, now, crashed, frame,
                  ch, log >>

\* What client.Do, the status check, ReadAll and json.Unmarshal may fail
\* with.
RequestErrors == { "neterr", "status", "undecodable" }

\* The resource identifier the metrics endpoint names in its entries.
EntryId(c) ==
  << "/" >> \o SubscriptionPath(c.request.subscription) \o c.target

\* The samples of a call, each with the target collectResource was called
\* for.
Tagged(target, samples) ==
  [ i \in DOMAIN samples |-> [ target |-> target, sample |-> samples[i] ] ]

\* getMetricValue from client.Do on, and the rest of collectResource: an
\* error is logged and collectResource returns; a decoded body goes through
\* the guards and the loop over its entries.
DoMetric(p, errors, bodies) ==
  /\ Running
  /\ pc[p] = "do"
  /\ call[p].kind = "metric"
  /\ \E e \in errors \cup { "none" } :
       IF e # "none"
       THEN Return(p, [ call[p] EXCEPT !.response = e ], "requestError", << >>)
       ELSE \E shape \in bodies :
              LET body == [ value |->
                     IF shape.value = None THEN None
                     ELSE Some([ i \in DOMAIN shape.value[1] |->
                                   [ shape.value[1][i] EXCEPT !.id = EntryId(call[p]) ] ]) ]
                  r == CollectDecoded(DecodeMetricValue(body),
                                      call[p].aggregations)
                  c == [ call[p] EXCEPT !.response = "body", !.body = body,
                                        !.emitted = r.samples ]
                  sent == Tagged(c.target, r.samples)
              IN  IF r.panic THEN Panic(p, c, sent)
                  ELSE Return(p, c, "ok", sent)
  /\ UNCHANGED << C, accessToken, accessTokenExpiresOn, now, reads >>

\* A listing whose one entry carries no "id".
MalformedListing == << << >> >>

\* listFromResourceGroup from client.Do on: an error returns; a decoded
\* body has the prefix cut off each id, which panics on an id shorter than
\* the prefix.
DoList(p, errors) ==
  /\ Running
  /\ pc[p] = "do"
  /\ call[p].kind = "list"
  /\ \E e \in errors \cup { "none" } :
       IF e # "none"
       THEN Return(p, [ call[p] EXCEPT !.response = e ], "requestError", << >>)
       ELSE \E ids \in ListBodies(call[p].target, call[p].request.subscription)
                         \cup { MalformedListing } :
              LET c == [ call[p] EXCEPT !.response = "body", !.ids = ids ]
                  subscription == SubscriptionPath(c.request.subscription)
              IN  IF \E i \in DOMAIN ids : StripPanics(ids[i], subscription)
                  THEN Panic(p, c, << >>)
                  ELSE Return(p, c, "ok", << >>)
  /\ UNCHANGED << C, accessToken, accessTokenExpiresOn, now, reads >>

(***************************************************************************)
(* Specifications                                                          *)
(***************************************************************************)

\* One scrape at a time, the configuration of the file main loaded.
Next ==
  \/ MainLoad({ ConfigMain })
  \/ Tick
  \/ \E p \in { "s1" } :
       \/ StartScrape(p)
       \/ ResLoop(p)
       \/ GrpLoop(p)
       \/ Filter(p)
       \/ TokenCheck(p)
       \/ BuildRequest(p)
       \/ DoMetric(p, RequestErrors, MainBodies)
       \/ DoList(p, RequestErrors)
  \/ \E p \in { "main", "s1" } :
       \/ PostForm(p, IdentityKinds)
       \/ SetToken(p)
       \/ SetExpiry(p)

Spec == Init /\ [][Next]_vars

\* Two scrapes at once: every handler runs in a goroutine of its own, and
\* all of them share ac and sc.  The identity endpoint grants or answers
\* with an error status; the metrics endpoint answers with an error status
\* or a body without "value".
NextConc ==
  \/ MainLoad({ ConfigSmall })
  \/ Tick
  \/ \E p \in Scrapers :
       \/ StartScrape(p)
       \/ ResLoop(p)
       \/ GrpLoop(p)
       \/ Filter(p)
       \/ TokenCheck(p)
       \/ BuildRequest(p)
       \/ DoMetric(p, { "status" }, { [ value |-> None ] })
       \/ DoList(p, { "status" })
  \/ \E p \in Procs :
       \/ PostForm(p, { "status", "ok" })
       \/ SetToken(p)
       \/ SetExpiry(p)

SpecConc == Init /\ [][NextConc]_vars

\* One scrape at a time of one explicit resource, over the bodies the
\* metrics endpoint may answer with; the token main got stays fresh.
NextCollect ==
  \/ MainLoad(CollectConfigs)
  \/ \E p \in { "s1" } :
       \/ StartScrape(p)
       \/ ResLoop(p)
       \/ GrpLoop(p)
       \/ TokenCheck(p)
       \/ BuildRequest(p)
       \/ DoMetric(p, RequestErrors, WideBodies)
  \/ \E p \in { "main" } :
       \/ PostForm(p, { "ok" })
       \/ SetToken(p)
       \/ SetExpiry(p)

SpecCollect == Init /\ [][NextCollect]_vars

\* One scrape at a time while the configuration file is edited and
\* reloaded.
NextReload ==
  \/ MainLoad({ ConfigSmall })
  \/ ReloadConfig({ ConfigSmall, ConfigEdited })
  \/ Tick
  \/ \E p \in { "s1" } :
       \/ StartScrape(p)
       \/ ResLoop(p)
       \/ GrpLoop(p)
       \/ Filter(p)
       \/ TokenCheck(p)
       \/ BuildRequest(p)
       \/ DoMetric(p, { "status" }, MainBodies)
       \/ DoList(p, { "status" })
  \/ \E p \in { "main", "s1" } :
       \/ PostForm(p, { "status", "ok" })
       \/ SetToken(p)
       \/ SetExpiry(p)

SpecReload == Init /\ [][NextReload]_vars

(***************************************************************************)
(* Properties                                                              *)
(***************************************************************************)

\* A metric-values or listing call of a scrape that is past its token check
\* and, if the check asked for one, past the POST of the grant.
PastGrant(c) ==
  /\ c.kind \in { "metric", "list" }
  /\ c.stage \notin { "check", "post" }

C1_BoundaryReached ==
  \E p \in Scrapers :
     /\ call[p].stage = "do" /\ ~call[p].granted
     /\ call[p].chkNow = call[p].chkExp - 10

\* The stored pair is the empty pair of NewAzureClient, or the bearer and
\* the expiry that one complete answer of the identity endpoint carried.
PairOfOneGrant ==
  \/ accessToken = NoToken /\ accessTokenExpiresOn = ZeroTime
  \/ accessToken.exp # ZeroTime /\ accessToken.exp = accessTokenExpiresOn

\* C2: while the process runs and no getAccessToken stands between its two
\* stores, the stored (bearer, expiry) pair is the initial empty pair or the
\* pair one single successful grant returned; a refresh that fails leaves
\* the pair as it was.
C2_StoredPairIsOneGrant ==
  (Running /\ \A p \in Procs : pc[p] # "setExp") => PairOfOneGrant

\* The answers of the identity endpoint that hold no usable token: a status
\* other than 200, or a body that bearer and expiry cannot be parsed from.
BadIdentityAnswers ==
  { "status", "badjson", "noToken", "noExpiry", "badExpiry" }

\* The samples on the channel that belong to a target.
SamplesOf(p, target) ==
  SelectSeq(ch[p], LAMBDA s : s.target = target)

\* The client call of p failed: its token refresh did, or the request did
\* (transport error, status other than 200, body that does not decode).
CallFailed(c) ==
  /\ c.kind \in { "metric", "list" }
  /\ \/ c.granted /\ c.answer.kind \in BadIdentityAnswers \cup { "neterr" }
     \/ c.response \in RequestErrors

\* C3: a failure confined to one target never suppresses the others.  A
\* failed listing puts no resource of the group in the output, a failed
\* metric-values call (token refresh, network, status, undecodable body)
\* leaves its resource without samples, and in both cases the scrape goes on:
\* the process does not crash, the failed call returns to Collect, and a
\* scrape that ends has called for every explicit resource and every group.
C3_FailureIsConfined ==
  \A p \in Scrapers :
     LET c == call[p] IN
     /\ CallFailed(c) =>
          /\ ~crashed
          /\ c.stage \in { "setTok", "setExp", "tokenError", "requestError" }
          /\ c.kind = "metric" => SamplesOf(p, c.target) = << >>
          /\ c.kind = "list" /\ c.stage \in { "tokenError", "requestError" } =>
               pc[p] \in { "grpLoop", "done" }
     /\ pc[p] = "done" =>
          /\ \A i \in DOMAIN frame[p].resources :
                \E j \in DOMAIN log[p] :
                   log[p][j] = [ kind |-> "metric",
                                 target |-> frame[p].resources[i].Name ]
          /\ \A i \in DOMAIN frame[p].groups :
                \E j \in DOMAIN log[p] :
                   log[p][j] = [ kind |-> "list",
                                 target |-> frame[p].groups[i].Name ]

\* The body decoded, and its "value" is absent or empty, or its first entry
\* has no time series, or its first series has no data points.
HollowBody(body) ==
  \/ body.value = None
  \/ body.value = Some(<< >>)
  \/ /\ body.value # None /\ Len(body.value[1]) > 0
     /\ LET ts == body.value[1][1].timeseries IN
        \/ ts = None
        \/ ts = Some(<< >>)
        \/ ts # None /\ Len(ts[1]) > 0
             /\ (ts[1][1].data = None \/ ts[1][1].data = Some(<< >>))

\* C4: a decoded metric-values body whose value list is absent or empty,
\* whose first entry has no time series or whose first series has no data
\* points yields zero samples, no panic and no error: the call returns and
\* the scrape goes on.
C4_HollowBodyYieldsNothing ==
  \A p \in Scrapers :
     LET c == call[p] IN
     c.kind = "metric" /\ c.response = "body" /\ HollowBody(c.body) =>
        /\ ~crashed
        /\ c.stage = "ok"
        /\ c.emitted = << >>
        /\ SamplesOf(p, c.target) = << >>

\* C5: when the identity endpoint answers a token request of a scrape with
\* a status other than 200 or with a body that bearer and expiry cannot be
\* parsed from, getAccessToken returns an error instead of crashing; the
\* resource that needed the refresh yields no samples and the scrape goes on.
C5_BadGrantIsAnError ==
  \A p \in Scrapers :
     LET c == call[p] IN
     /\ c.kind \in { "metric", "list" }
     /\ c.granted /\ c.answer.kind \in BadIdentityAnswers
     => /\ ~crashed
        /\ c.stage \in { "setTok", "setExp", "tokenError" }
        /\ c.request = NoRequest
        /\ c.kind = "metric" => SamplesOf(p, c.target) = << >>

\* The resource-relative path of a listed resource with the given leaf.
RelativePath(leaf) == << "/", "v", "m", "/" >> \o leaf

\* A call for the target: one Collect has returned from, or the one in
\* progress.
Queried(p, target) ==
  \/ \E j \in DOMAIN log[p] : log[p][j] = [ kind |-> "metric", target |-> target ]
  \/ call[p].kind = "metric" /\ call[p].target = target

\* C6: a resource a group listing returned is collected if and only if
\* (the include list is empty or its leaf name matches an include pattern)
\* and its leaf name matches no exclude pattern; with include ^web- and
\* exclude -staging$, web-staging is dropped, web-prod is collected and
\* db-prod is dropped.
C6_CollectedIffIncludedAndNotExcluded ==
  \A p \in Scrapers :
     LET f == frame[p] IN
     \A i \in DOMAIN f.decisions :
        LET d == f.decisions[i]
            group == f.groups[f.gi]
            segments == SplitSlash(d.resource)
            leaf == segments[Len(segments)]
            included == \E k \in DOMAIN group.ResourceInclude :
                           RegexpMatch(group.ResourceInclude[k], leaf)
            excluded == \E k \in DOMAIN group.ResourceExclude :
                           RegexpMatch(group.ResourceExclude[k], leaf)
        IN  /\ d.resource = f.listed[i]
            /\ d.collected <=>
                 (group.ResourceInclude = << >> \/ included) /\ ~excluded
            /\ d.collected <=> Queried(p, d.resource)
            /\ group.ResourceInclude = << Rx_web >>
                 /\ group.ResourceExclude = << Rx_staging >> =>
                 /\ d.resource = RelativePath(Leaf_web_staging) => ~d.collected
                 /\ d.resource = RelativePath(Leaf_web_prod) => d.collected
                 /\ d.resource = RelativePath(Leaf_db_prod) => ~d.collected

\* The loop over a listing of web-staging, web-prod and db-prod, in some
\* order, came to its end under the two patterns.
C6_Witness ==
  \E p \in Scrapers :
     LET f == frame[p] IN
     /\ pc[p] = "filter"
     /\ Len(f.decisions) = 3
     /\ f.groups[f.gi].ResourceInclude = << Rx_web >>
     /\ f.groups[f.gi].ResourceExclude = << Rx_staging >>
     /\ \E i, j, k \in 1..3 :
           /\ f.decisions[i] = [ resource |-> RelativePath(Leaf_web_staging),
                                 collected |-> FALSE ]
           /\ f.decisions[j] = [ resource |-> RelativePath(Leaf_web_prod),
                                 collected |-> TRUE ]
           /\ f.decisions[k] = [ resource |-> RelativePath(Leaf_db_prod),
                                 collected |-> FALSE ]
     /\ Queried(p, RelativePath(Leaf_web_prod))

\* The metric-values calls Collect has returned from since the last listing.
RECURSIVE CallsSinceListing(_)
CallsSinceListing(entries) ==
  IF entries = << >> \/ entries[Len(entries)].kind = "list" THEN << >>
  ELSE Append(CallsSinceListing(SubSeq(entries, 1, Len(entries) - 1)),
              entries[Len(entries)].target)

\* C8: a group with empty include and exclude lists whose listing names N
\* identifiers passes exactly N resources to collection, in listing order,
\* each the listed identifier without its leading /subscriptions/<id>.
C8_ListingRoundTrip ==
  \A p \in Scrapers :
     LET f == frame[p] IN
     f.phase = "grp" /\ pc[p] \in { "filter", "check", "post", "setTok",
                                    "setExp", "build", "do" }
        /\ call[p].kind # "list" =>
        LET group == f.groups[f.gi]
            prefix == << "/" >> \o SubscriptionPath(C.Credentials.SubscriptionID)
        IN  /\ Len(f.listed) = Len(f.ids)
            /\ \A i \in DOMAIN f.ids : prefix \o f.listed[i] = f.ids[i]
            /\ group.ResourceInclude = << >> /\ group.ResourceExclude = << >> =>
                 /\ \A i \in DOMAIN f.decisions :
                       f.decisions[i] = [ resource |-> f.listed[i],
                                          collected |-> TRUE ]
                 /\ pc[p] = "filter" =>
                      /\ CallsSinceListing(log[p]) = SubSeq(f.listed, 1, f.li - 1)
                      /\ Len(f.decisions) = f.li - 1
                 /\ pc[p] = "filter" /\ f.li > Len(f.listed) =>
                      /\ Len(f.decisions) = Len(f.ids)
                      /\ CallsSinceListing(log[p]) = f.listed

\* A listing of two identifiers went through the loop to its end.
C8_Witness ==
  \E p \in Scrapers :
     LET f == frame[p] IN
     /\ pc[p] = "filter"
     /\ f.groups[f.gi].ResourceInclude = << >>
     /\ f.groups[f.gi].ResourceExclude = << >>
     /\ Len(f.ids) = 2
     /\ f.li = 3
     /\ f.ids[1] = ResourceId(C.Credentials.SubscriptionID, Leaf_y)
     /\ CallsSinceListing(log[p]) = << RelativePath(Leaf_y), RelativePath(Leaf_x) >>

\* The last data point of the first series of a body's entry, as the body
\* carries it.
LastPoint(entry) ==
  LET data == entry.timeseries[1][1].data[1] IN data[Len(data)]

\* The body went through the loop of collectResource to its end.
Collected(c) ==
  c.kind = "metric" /\ c.response = "body" /\ c.stage = "ok"
     /\ ~HollowBody(c.body)

\* The aggregation kind is requested: configured, or nothing is configured.
Requested(aggregations, kind) ==
  aggregations = << >> \/ kind \in Range(aggregations)

\* C7: for every configured aggregation set and every returned entry,
\* collectResource emits exactly one sample for each kind that is both
\* requested and present in the response, and none for a kind that was not
\* requested or that is absent from the response: the samples of a kind are
\* as many as the entries whose data point carries that kind.
C7_OneSamplePerRequestedAndPresentKind ==
  \A p \in Scrapers :
     LET c == call[p] IN
     Collected(c) =>
        \A k \in KindSet :
           LET entries == c.body.value[1]
               carrying == { i \in DOMAIN entries : LastPoint(entries[i])[k] # None }
               samples == { j \in DOMAIN c.emitted : c.emitted[j].kind = k }
           IN  Cardinality(samples) =
                 IF Requested(c.aggregations, k) THEN Cardinality(carrying) ELSE 0

\* The four suffixes of the specification.
SuffixVocabulary ==
  { << "_", "t", "o", "t", "a", "l" >>,
    << "_", "a", "v", "e", "r", "a", "g", "e" >>,
    << "_", "m", "i", "n" >>,
    << "_", "m", "a", "x" >> }

LowerClass == Range(LowerSeq) \cup Range(DigitSeq) \cup { "_", ":" }

OutputClass == LowerClass \cup Range(UpperSeq)

\* What the specification's derivation makes of one character of
\* name + "_" + unit.
DerivedChar(ch1) ==
  IF ch1 = " " THEN << "_" >>
  ELSE IF ch1 = "/" THEN << "_", "p", "e", "r", "_" >>
  ELSE IF ch1 \in Range(UpperSeq)
  THEN << LowerSeq[CHOOSE i \in DOMAIN UpperSeq : UpperSeq[i] = ch1] >>
  ELSE IF ch1 \in LowerClass THEN << ch1 >>
  ELSE << "_" >>

RECURSIVE Derived(_)
Derived(str) ==
  IF str = << >> THEN << >> ELSE DerivedChar(Head(str)) \o Derived(Tail(str))

\* The sample is named after the entry: the derived base name and one of
\* the four suffixes.
NamedAfter(sample, entry) ==
  \E suffix \in SuffixVocabulary :
     sample.name = Derived(entry.name \o << "_" >> \o entry.unit) \o suffix

\* The derivation of C9 without its clause on names already in the class.
DerivedNames(c) ==
  /\ \A j \in DOMAIN c.emitted :
        /\ Range(c.emitted[j].name) \subseteq OutputClass
        /\ \E i \in DOMAIN c.body.value[1] :
              NamedAfter(c.emitted[j], c.body.value[1][i])
  /\ \A i \in DOMAIN c.body.value[1] :
        \A k \in KindSet :
           Requested(c.aggregations, k) =>
              \E j \in DOMAIN c.emitted :
                 c.emitted[j].kind = k /\ NamedAfter(c.emitted[j], c.body.value[1][i])

\* The base name begins with the raw name, character for character.
KeepsName(sample, entry) ==
  NamedAfter(sample, entry) =>
     SubSeq(sample.name, 1, Len(entry.name)) = entry.name

\* C9, as the specification states it: the base name is the raw name with
\* blanks as '_', then '_' and the unit, lowercased, '/' as '_per_', every
\* character outside [a-zA-Z0-9_:] as '_'; it holds only characters of
\* that class, a name already in [a-zA-Z0-9_:] has no character changed,
\* and the suffixes are _total, _average, _min and _max.
C9_NameInClassUnchanged ==
  \A p \in Scrapers :
     LET c == call[p] IN
     Collected(c) =>
        /\ DerivedNames(c)
        /\ \A j \in DOMAIN c.emitted, i \in DOMAIN c.body.value[1] :
              Range(c.body.value[1][i].name) \subseteq OutputClass =>
                 KeepsName(c.emitted[j], c.body.value[1][i])

\* C9, amended: as above, and it is a name already in [a-z0-9_:] that has
\* no character changed; an upper-case letter, though in [a-zA-Z0-9_:], is
\* lowercased.
C9_LowerNameUnchanged ==
  \A p \in Scrapers :
     LET c == call[p] IN
     Collected(c) =>
        /\ DerivedNames(c)
        /\ \A j \in DOMAIN c.emitted, i \in DOMAIN c.body.value[1] :
              LET e == c.body.value[1][i] IN
              /\ Range(e.name) \subseteq LowerClass =>
                    KeepsName(c.emitted[j], e)
              /\ Range(e.name) \subseteq OutputClass /\ NamedAfter(c.emitted[j], e) =>
                    SubSeq(c.emitted[j].name, 1, Len(e.name)) =
                       [ n \in DOMAIN e.name |-> LowerOf(e.name[n]) ]

\* Samples named after a lower-case name of the class and a unit with '/'.
C9_Witness ==
  \E p \in Scrapers :
     LET c == call[p] IN
     /\ Collected(c)
     /\ Len(c.body.value[1]) = 1
     /\ c.body.value[1][1].name = << "a", "_", "1", ":" >>
     /\ c.body.value[1][1].unit = << "B", "/", "S" >>
     /\ Len(c.emitted) = 4
     /\ c.emitted[3].name =
          << "a", "_", "1", ":", "_", "b", "_", "p", "e", "r", "_", "s",
             "_", "m", "i", "n" >>

\* An upper-case name of the class was mapped.
C9_UpperNameReached ==
  \E p \in Scrapers :
     LET c == call[p] IN
     /\ Collected(c)
     /\ Len(c.body.value[1]) = 1
     /\ c.body.value[1][1].name = << "I", "O" >>
     /\ c.emitted # << >>
     /\ SubSeq(c.emitted[1].name, 1, 2) = << "i", "o" >>

\* C10: when ReloadConfig runs while a scrape is in flight, every
\* configuration read of that scrape (the explicit resources, the resource
\* groups, the credentials and subscription id of its client calls) is of
\* one configuration object, the old one or the new one, never of both.
C10_ScrapeReadsOneConfig ==
  \A p \in Scrapers :
     /\ Cardinality(reads[p]) <= 1
     /\ frame[p].phase = "grp" =>
          \E c \in reads[p] :
             frame[p].resources = c.Resources /\ frame[p].groups = c.ResourceGroups


\* The kinds collectResource sends a sample of, per entry.
RequestedKinds(aggregations) ==
  { k \in KindSet : Requested(aggregations, k) }

\* The entry of the body that the j-th sample of a completed call was sent
\* for: the loop sends the samples of one entry before it turns to the next.
EntryOf(c, j) ==
  c.body.value[1][((j - 1) \div Cardinality(RequestedKinds(c.aggregations))) + 1]

\* The value the data point carries for the kind; a member it does not
\* carry decodes to 0.
Carried(point, kind) ==
  IF point[kind] = None THEN 0 ELSE point[kind][1]

\* C11: for every entry of a metric-values response, the first and every
\* later one, each sample emitted for the entry takes its value from the
\* last data point of the entry's own (first) series, never from an earlier
\* data point, from another entry or from an average over the window.
C11_ValueOfLastDataPoint ==
  \A p \in Scrapers :
     LET c == call[p] IN
     Collected(c) =>
        /\ Len(c.emitted) =
             Len(c.body.value[1]) * Cardinality(RequestedKinds(c.aggregations))
        /\ \A j \in DOMAIN c.emitted :
              LET sample == c.emitted[j]
                  entry == EntryOf(c, j)
                  data == entry.timeseries[1][1].data[1]
              IN  /\ NamedAfter(sample, entry)
                  /\ sample.value = Carried(data[Len(data)], sample.kind)

\* Two entries whose data points all differ, each of two points: the
\* samples of the first are valued 3..6 and those of the second 7..10.
C11_Witness ==
  \E p \in Scrapers :
     LET c == call[p] IN
     /\ Collected(c)
     /\ c.aggregations = << >>
     /\ Len(c.body.value[1]) = 2
     /\ c.body.value[1][1].timeseries[1][1].data[1] = << FullPoint(1), FullPoint(3) >>
     /\ c.body.value[1][2].timeseries[1][1].data[1] = << FullPoint(3), FullPoint(7) >>
     /\ [ j \in 1..8 |-> c.emitted[j].value ] = << 3, 4, 5, 6, 7, 8, 9, 10 >>
     /\ SamplesOf(p, c.target) # << >>

\* The first of two series of an entry valued the samples.
C11_FirstSeriesReached ==
  \E p \in Scrapers :
     LET c == call[p] IN
     /\ Collected(c)
     /\ Len(c.body.value[1][1].timeseries[1]) = 2
     /\ c.emitted # << >>
     /\ c.emitted[1].kind = "Total" /\ c.emitted[1].value = 3

====
